---- MODULE Spec2Model ----
(***************************************************************************)
(* toolchain/cmake_parser.py: extract_libraries, cmake_parser and the      *)
(* __main__ loop, as a sequential state machine.                           *)
(*                                                                         *)
(* Text is modelled at the level the two regular expressions see it.  A    *)
(* file is a sequence of declarations; the quoted INTERFACE_LINK_LIBRARIES *)
(* string is a sequence of lexemes (a library name, the literal            *)
(* "\$<LINK_ONLY:", ">", ";"), so a dependency token is a sequence of      *)
(* lexemes and an output line is a sequence of string pieces whose         *)
(* concatenation is the line.                                              *)
(***************************************************************************)
EXTENDS Naturals, Sequences, FiniteSets, TLC

VARIABLES
    filenames,                              \* args.filenames
    fs,                                     \* the files behind the paths
    fi,                                     \* position of the __main__ loop
    pc,                                     \* program location
    stdout,                                 \* lines printed so far
    contents,                               \* cmake_parser: f.read()
    add_library_matches,                    \* extract_libraries, line 39
    set_target_properties_pattern_matches,  \* extract_libraries, line 43
    result,                                 \* extract_libraries: the dict
    i,                                      \* index of the running for loop
    libraries,                              \* cmake_parser, line 109
    bzl_content,                            \* cmake_parser, line 112
    lib_name, lib_deps,                     \* cmake_parser, line 134
    link_opts, external_deps, internal_deps,\* cmake_parser, lines 135-137
    j                                       \* index of the loop of line 139

vars == <<filenames, fs, fi, pc, stdout, contents, add_library_matches,
          set_target_properties_pattern_matches, result, i, libraries,
          bzl_content, lib_name, lib_deps, link_opts, external_deps,
          internal_deps, j>>

(***************************************************************************)
(* Bounds of the explored inputs.                                          *)
(***************************************************************************)
MaxDecls == 3
MaxStrLen == 5
MaxDeps == 3
MaxFiles == 3
MaxFileDecls == 1

SeqsUpTo(S, n) == UNION {[1..k -> S] : k \in 0..n}

Range(s) == {s[k] : k \in 1..Len(s)}

(***************************************************************************)
(* Lexemes of a quoted dependency string.                                  *)
(***************************************************************************)
LINK_ONLY == "\\$<LINK_ONLY:"
GT == ">"
SEMI == ";"

(***************************************************************************)
(* Declarations of a cmake file.  form says how the call is written:       *)
(*   add_library(X STATIC IMPORTED)              "args"                    *)
(*   add_library(X)                              "bare"                    *)
(*   set_target_properties(X PROPERTIES                                    *)
(*     INTERFACE_LINK_LIBRARIES "str" )          "INTERFACE_LINK_LIBRARIES"*)
(*   set_target_properties(X PROPERTIES                                    *)
(*     IMPORTED_LOCATION "str" )                 "IMPORTED_LOCATION"       *)
(***************************************************************************)
AddLibrary(name, form) ==
    [kind |-> "add_library", name |-> name, form |-> form, str |-> <<>>]

SetTargetProperties(name, form, str) ==
    [kind |-> "set_target_properties", name |-> name, form |-> form, str |-> str]

(***************************************************************************)
(* re.findall(add_library_pattern, contents): the pattern wants a space    *)
(* after the identifier, so add_library(X) is no match.                    *)
(***************************************************************************)
AddLibraryPatternMatches(d) == d.kind = "add_library" /\ d.form = "args"

FindAllAddLibrary(text) ==
    LET hits == SelectSeq(text, AddLibraryPatternMatches)
    IN  [k \in 1..Len(hits) |-> hits[k].name]

(***************************************************************************)
(* re.findall(set_target_properties_pattern, contents): PROPERTIES must be *)
(* followed by INTERFACE_LINK_LIBRARIES and a closed quoted string.        *)
(***************************************************************************)
SetTargetPropertiesPatternMatches(d) ==
    d.kind = "set_target_properties" /\ d.form = "INTERFACE_LINK_LIBRARIES"

FindAllSetTargetProperties(text) ==
    LET hits == SelectSeq(text, SetTargetPropertiesPatternMatches)
    IN  [k \in 1..Len(hits) |-> <<hits[k].name, hits[k].str>>]

(***************************************************************************)
(* deps_str.split(";")                                                     *)
(***************************************************************************)
RECURSIVE Split(_)
Split(s) ==
    IF \A k \in 1..Len(s) : s[k] # SEMI
    THEN <<s>>
    ELSE LET p == CHOOSE k \in 1..Len(s) :
                      s[k] = SEMI /\ \A m \in 1..(k - 1) : s[m] # SEMI
         IN  <<SubSeq(s, 1, p - 1)>> \o Split(SubSeq(s, p + 1, Len(s)))

(***************************************************************************)
(* re.sub(r"\\\$<LINK_ONLY:(.*?)>", r"\1", dep): every leftmost,           *)
(* non-overlapping occurrence of the opener up to the nearest ">" is       *)
(* replaced by what stands between them; the scan goes on after the ">".   *)
(***************************************************************************)
RECURSIVE LinkOnlySub(_)
LinkOnlySub(dep) ==
    IF dep = <<>>
    THEN <<>>
    ELSE IF Head(dep) = LINK_ONLY /\ \E q \in 2..Len(dep) : dep[q] = GT
         THEN LET q == CHOOSE k \in 2..Len(dep) :
                           dep[k] = GT /\ \A m \in 2..(k - 1) : dep[m] # GT
              IN  SubSeq(dep, 2, q - 1) \o LinkOnlySub(SubSeq(dep, q + 1, Len(dep)))
         ELSE <<Head(dep)>> \o LinkOnlySub(Tail(dep))

Normalize(deps) == [k \in 1..Len(deps) |-> LinkOnlySub(deps[k])]

(***************************************************************************)
(* list(dict.fromkeys(deps))                                               *)
(***************************************************************************)
RECURSIVE FromKeys(_, _)
FromKeys(deps, seen) ==
    IF deps = <<>>
    THEN seen
    ELSE FromKeys(Tail(deps),
                  IF Head(deps) \in Range(seen) THEN seen ELSE Append(seen, Head(deps)))

\* the list is stored as split
RemoveDuplicatesKeepsAll(deps) == deps

RemoveDuplicates(deps) == FromKeys(deps, <<>>)

(***************************************************************************)
(* A dict is the sequence of its items, <<key, value>>, in insertion       *)
(* order.  d[key] = value keeps the place of a key that is there and       *)
(* appends one that is not.                                                *)
(***************************************************************************)
Keys(d) == [k \in 1..Len(d) |-> d[k][1]]

HasKey(d, key) == \E k \in 1..Len(d) : d[k][1] = key

\* a list of pairs instead of a dict: every assignment appends
DictSetAppends(d, key, value) == Append(d, <<key, value>>)

\* an assignment to a key that is there moves it to the end
DictSetMovesToEnd(d, key, value) ==
    Append(SelectSeq(d, LAMBDA item : item[1] # key), <<key, value>>)

DictSet(d, key, value) ==
    IF HasKey(d, key)
    THEN [k \in 1..Len(d) |-> IF d[k][1] = key THEN <<key, value>> ELSE d[k]]
    ELSE Append(d, <<key, value>>)

(***************************************************************************)
(* The body of the loop of lines 52-62 for one match: lines 54-60, and the *)
(* assignment of line 62.                                                  *)
(***************************************************************************)
ParseDeps(deps_str) == RemoveDuplicates(Normalize(Split(deps_str)))

\* only a declared library takes the list
StoreDepsDeclaredOnly(d, library_name, deps) ==
    IF HasKey(d, library_name) THEN DictSet(d, library_name, deps) ELSE d

\* result.setdefault(library_name, deps): an entry that is there stays
StoreDepsKeepsEntry(d, library_name, deps) ==
    IF HasKey(d, library_name) THEN d ELSE DictSet(d, library_name, deps)

StoreDeps(d, library_name, deps) == DictSet(d, library_name, deps)

(***************************************************************************)
(* The two lookup tables of cmake_parser.  A key is a one-lexeme token.    *)
(***************************************************************************)
system_library_map ==
    (<<"m">> :> "-lm") @@
    (<<"ZLIB::ZLIB">> :> "-lz") @@
    (<<"Terminfo::terminfo">> :> "-lncurses") @@
    (<<"LibEdit::LibEdit">> :> "-ledit") @@
    (<<"LibXml2::LibXml2">> :> "-lxml2") @@
    (<<"-framework CoreServices">> :> "-framework CoreServices") @@
    (<<"rt">> :> "-lrt") @@
    (<<"dl">> :> "-ldl") @@
    (<<"-lpthread">> :> "-lpthread")

dep_map ==
    (<<"zstd::libzstd_static">> :> "@zstd") @@
    (<<"zstd::libzstd_shared">> :> "@zstd")

(***************************************************************************)
(* The conditions of the if / elif / else of lines 140-145.                *)
(***************************************************************************)
IsSystem(dep) == dep \in DOMAIN system_library_map

IsExternal(dep) == ~IsSystem(dep) /\ dep \in DOMAIN dep_map

IsInternal(dep) == ~IsSystem(dep) /\ dep \notin DOMAIN dep_map

(***************************************************************************)
(* The lines of one cc_library block, lines 147-167.                       *)
(***************************************************************************)
LineOpen == <<"cc_library(">>
LineName(name) == <<"    name = \"lib_", name, "\",">>
LineSrcsOpen == <<"    srcs = [">>
LineSrc(name) == <<"        \"lib/lib", name, ".a\",">>
LineListClose == <<"    ],">>
LineDepsOpen == <<"    deps = [">>
LineInternalDep(dep) == <<"        \":lib_">> \o dep \o <<"\",">>
LineQuoted(text) == <<"        \"", text, "\",">>
LineLinkoptsOpen == <<"    linkopts = [">>
LineClose == <<")">>
LineBlank == <<>>

\* the external labels are written before the internal ones
DepsAttributeExternalFirst(internal, external) ==
    IF Len(internal) # 0 \/ Len(external) # 0
    THEN <<LineDepsOpen>>
         \o [k \in 1..Len(external) |-> LineQuoted(external[k])]
         \o [k \in 1..Len(internal) |-> LineInternalDep(internal[k])]
         \o <<LineListClose>>
    ELSE <<>>

DepsAttribute(internal, external) ==
    IF Len(internal) # 0 \/ Len(external) # 0
    THEN <<LineDepsOpen>>
         \o [k \in 1..Len(internal) |-> LineInternalDep(internal[k])]
         \o [k \in 1..Len(external) |-> LineQuoted(external[k])]
         \o <<LineListClose>>
    ELSE <<>>

\* the attribute is written even when it is empty
LinkoptsAttributeAlways(opts) ==
    <<LineLinkoptsOpen>>
    \o [k \in 1..Len(opts) |-> LineQuoted(opts[k])]
    \o <<LineListClose>>

LinkoptsAttribute(opts) ==
    IF Len(opts) # 0
    THEN <<LineLinkoptsOpen>>
         \o [k \in 1..Len(opts) |-> LineQuoted(opts[k])]
         \o <<LineListClose>>
    ELSE <<>>

RenderBlock(name, internal, external, opts) ==
    <<LineOpen, LineName(name), LineSrcsOpen, LineSrc(name), LineListClose>>
    \o DepsAttribute(internal, external)
    \o LinkoptsAttribute(opts)
    \o <<LineClose, LineBlank>>

(***************************************************************************)
(* print(text): the text and a newline.  Every text printed here is empty  *)
(* or ends a line, so the newline is one more, empty, line.                *)
(***************************************************************************)
SourceLine(filename) == <<"# Source: ", filename>>

PrintLines(text) == text \o <<LineBlank>>

(***************************************************************************)
(* The program.                                                            *)
(***************************************************************************)
ParserLocals == <<contents, add_library_matches,
                  set_target_properties_pattern_matches, result, i, libraries,
                  bzl_content, lib_name, lib_deps, link_opts, external_deps,
                  internal_deps, j>>

BlockLocals == <<lib_name, lib_deps, link_opts, external_deps, internal_deps, j>>

NoLocals ==
    /\ contents = <<>>
    /\ add_library_matches = <<>>
    /\ set_target_properties_pattern_matches = <<>>
    /\ result = <<>>
    /\ i = 0
    /\ libraries = <<>>
    /\ bzl_content = <<>>
    /\ lib_name = ""
    /\ lib_deps = <<>>
    /\ link_opts = <<>>
    /\ external_deps = <<>>
    /\ internal_deps = <<>>
    /\ j = 0

\* lines 174-175
PrintSource ==
    /\ pc = "main"
    /\ fi <= Len(filenames)
    /\ stdout' = Append(stdout, SourceLine(filenames[fi]))
    /\ pc' = "open"
    /\ UNCHANGED <<filenames, fs, fi, ParserLocals>>

\* line 174, the list is exhausted
MainDone ==
    /\ pc = "main"
    /\ fi > Len(filenames)
    /\ pc' = "exit"
    /\ UNCHANGED <<filenames, fs, fi, stdout, ParserLocals>>

\* the unreadable file is skipped and the loop goes on
OpenFailsSkipsFile ==
    /\ pc = "open"
    /\ ~fs[filenames[fi]].exists
    /\ fi' = fi + 1
    /\ pc' = "main"
    /\ UNCHANGED <<filenames, fs, stdout, ParserLocals>>

\* line 105, open() raises
OpenFails ==
    /\ pc = "open"
    /\ ~fs[filenames[fi]].exists
    /\ pc' = "error"
    /\ UNCHANGED <<filenames, fs, fi, stdout, ParserLocals>>

\* lines 105-109 and 38-47
ReadAndMatch ==
    /\ pc = "open"
    /\ fs[filenames[fi]].exists
    /\ contents' = fs[filenames[fi]].text
    /\ add_library_matches' = FindAllAddLibrary(contents')
    /\ set_target_properties_pattern_matches' = FindAllSetTargetProperties(contents')
    /\ result' = <<>>
    /\ i' = 1
    /\ pc' = "add_loop"
    /\ UNCHANGED <<filenames, fs, fi, stdout, libraries, bzl_content, BlockLocals>>

\* lines 49-50
AddLoop ==
    /\ pc = "add_loop"
    /\ i <= Len(add_library_matches)
    /\ result' = DictSet(result, add_library_matches[i], <<>>)
    /\ i' = i + 1
    /\ UNCHANGED <<filenames, fs, fi, pc, stdout, contents, add_library_matches,
                   set_target_properties_pattern_matches, libraries, bzl_content,
                   BlockLocals>>

\* line 49, the list is exhausted
AddLoopEnd ==
    /\ pc = "add_loop"
    /\ i > Len(add_library_matches)
    /\ i' = 1
    /\ pc' = "set_loop"
    /\ UNCHANGED <<filenames, fs, fi, stdout, contents, add_library_matches,
                   set_target_properties_pattern_matches, result, libraries,
                   bzl_content, BlockLocals>>

\* lines 52-62
SetLoop ==
    /\ pc = "set_loop"
    /\ i <= Len(set_target_properties_pattern_matches)
    /\ LET library_name == set_target_properties_pattern_matches[i][1]
           deps_str == set_target_properties_pattern_matches[i][2]
       IN  result' = StoreDeps(result, library_name, ParseDeps(deps_str))
    /\ i' = i + 1
    /\ UNCHANGED <<filenames, fs, fi, pc, stdout, contents, add_library_matches,
                   set_target_properties_pattern_matches, libraries, bzl_content,
                   BlockLocals>>

\* lines 64, 109-112
ExtractReturn ==
    /\ pc = "set_loop"
    /\ i > Len(set_target_properties_pattern_matches)
    /\ libraries' = result
    /\ bzl_content' = <<>>
    /\ i' = 1
    /\ pc' = "render_loop"
    /\ UNCHANGED <<filenames, fs, fi, stdout, contents, add_library_matches,
                   set_target_properties_pattern_matches, result, BlockLocals>>

\* lines 134-137
RenderNext ==
    /\ pc = "render_loop"
    /\ i <= Len(libraries)
    /\ lib_name' = libraries[i][1]
    /\ lib_deps' = libraries[i][2]
    /\ link_opts' = <<>>
    /\ external_deps' = <<>>
    /\ internal_deps' = <<>>
    /\ j' = 1
    /\ pc' = "classify"
    /\ UNCHANGED <<filenames, fs, fi, stdout, contents, add_library_matches,
                   set_target_properties_pattern_matches, result, i, libraries,
                   bzl_content>>

ClassifyFrame ==
    /\ j' = j + 1
    /\ UNCHANGED <<filenames, fs, fi, pc, stdout, contents, add_library_matches,
                   set_target_properties_pattern_matches, result, i, libraries,
                   bzl_content, lib_name, lib_deps>>

\* lines 139-141
ClassifySystem ==
    /\ pc = "classify"
    /\ j <= Len(lib_deps)
    /\ IsSystem(lib_deps[j])
    /\ link_opts' = Append(link_opts, system_library_map[lib_deps[j]])
    /\ UNCHANGED <<external_deps, internal_deps>>
    /\ ClassifyFrame

\* lines 142-143
ClassifyExternal ==
    /\ pc = "classify"
    /\ j <= Len(lib_deps)
    /\ IsExternal(lib_deps[j])
    /\ external_deps' = Append(external_deps, dep_map[lib_deps[j]])
    /\ UNCHANGED <<link_opts, internal_deps>>
    /\ ClassifyFrame

\* lines 144-145
ClassifyInternal ==
    /\ pc = "classify"
    /\ j <= Len(lib_deps)
    /\ IsInternal(lib_deps[j])
    /\ internal_deps' = Append(internal_deps, lib_deps[j])
    /\ UNCHANGED <<link_opts, external_deps>>
    /\ ClassifyFrame

\* lines 147-167
EmitBlock ==
    /\ pc = "classify"
    /\ j > Len(lib_deps)
    /\ bzl_content' = bzl_content
                      \o RenderBlock(lib_name, internal_deps, external_deps, link_opts)
    /\ i' = i + 1
    /\ pc' = "render_loop"
    /\ UNCHANGED <<filenames, fs, fi, stdout, contents, add_library_matches,
                   set_target_properties_pattern_matches, result, libraries,
                   BlockLocals>>

\* lines 169 and 176; the locals of cmake_parser end with the call
ReturnAndPrint ==
    /\ pc = "render_loop"
    /\ i > Len(libraries)
    /\ stdout' = stdout \o PrintLines(bzl_content)
    /\ fi' = fi + 1
    /\ pc' = "main"
    /\ contents' = <<>>
    /\ add_library_matches' = <<>>
    /\ set_target_properties_pattern_matches' = <<>>
    /\ result' = <<>>
    /\ i' = 0
    /\ libraries' = <<>>
    /\ bzl_content' = <<>>
    /\ lib_name' = ""
    /\ lib_deps' = <<>>
    /\ link_opts' = <<>>
    /\ external_deps' = <<>>
    /\ internal_deps' = <<>>
    /\ j' = 0
    /\ UNCHANGED <<filenames, fs>>

Next ==
    \/ PrintSource
    \/ MainDone
    \/ OpenFails
    \/ ReadAndMatch
    \/ AddLoop
    \/ AddLoopEnd
    \/ SetLoop
    \/ ExtractReturn
    \/ RenderNext
    \/ ClassifySystem
    \/ ClassifyExternal
    \/ ClassifyInternal
    \/ EmitBlock
    \/ ReturnAndPrint

(***************************************************************************)
(* The inputs: the argument list and the files.                            *)
(***************************************************************************)
Paths == {"a.cmake", "b.cmake"}

Names == {"X", "Y"}

File(text) == [exists |-> TRUE, text |-> text]

NoFile == [exists |-> FALSE, text |-> <<>>]

RECURSIVE Join(_)
Join(tokens) ==
    IF tokens = <<>> THEN <<>>
    ELSE IF Len(tokens) = 1 THEN tokens[1]
    ELSE tokens[1] \o <<SEMI>> \o Join(Tail(tokens))

\* files of up to MaxDecls declarations of every form, with short strings
DeclStrings == {<<>>, <<"A">>, <<"m">>}

Decls ==
    {AddLibrary(n, f) : n \in Names, f \in {"args", "bare"}}
    \cup {SetTargetProperties(n, "INTERFACE_LINK_LIBRARIES", s) :
              n \in Names, s \in DeclStrings}
    \cup {SetTargetProperties(n, "IMPORTED_LOCATION", <<>>) : n \in Names}

DeclTexts == SeqsUpTo(Decls, MaxDecls)

\* one library whose quoted string is any lexeme string up to MaxStrLen
StringLexemes == {"A", "B", LINK_ONLY, GT, SEMI}

StringTexts ==
    {<<AddLibrary("X", "args"),
       SetTargetProperties("X", "INTERFACE_LINK_LIBRARIES", s)>> :
         s \in SeqsUpTo(StringLexemes, MaxStrLen)}

\* one library whose quoted string lists up to MaxDeps names of the tables
\* and of other libraries
TableTokens ==
    {<<"A">>, <<"B">>, <<"m">>, <<"ZLIB::ZLIB">>,
     <<"zstd::libzstd_static">>, <<"zstd::libzstd_shared">>}

TableTexts ==
    {<<AddLibrary("X", "args"),
       SetTargetProperties("X", "INTERFACE_LINK_LIBRARIES", Join(t))>> :
         t \in SeqsUpTo(TableTokens, MaxDeps)}

\* several paths, some of them unreadable
FileDecls ==
    {AddLibrary("X", "args"),
     SetTargetProperties("X", "INTERFACE_LINK_LIBRARIES", <<"A">>),
     SetTargetProperties("Y", "INTERFACE_LINK_LIBRARIES", <<"m">>)}

FileChoices == {NoFile} \cup {File(t) : t \in SeqsUpTo(FileDecls, MaxFileDecls)}

InitOneFile ==
    /\ filenames = <<"a.cmake">>
    /\ \E text \in DeclTexts \cup StringTexts \cup TableTexts :
           fs = [p \in Paths |-> IF p = "a.cmake" THEN File(text) ELSE NoFile]

InitManyFiles ==
    /\ filenames \in SeqsUpTo(Paths, MaxFiles) \ {<<>>}
    /\ fs \in [Paths -> FileChoices]

Init ==
    /\ InitOneFile \/ InitManyFiles
    /\ fi = 1
    /\ pc = "main"
    /\ stdout = <<>>
    /\ NoLocals

Spec == Init /\ [][Next]_vars

(***************************************************************************)
(* Reading the input and the output back, for the properties below.        *)
(***************************************************************************)
NthOf(S, n) == CHOOSE p \in S : Cardinality({q \in S : q < p}) = n - 1

NoRepeat(s) == \A a, b \in 1..Len(s) : s[a] = s[b] => a = b

FirstIndex(s, x) == CHOOSE k \in 1..Len(s) : s[k] = x /\ \A m \in 1..(k - 1) : s[m] # x

\* s without the later copies of its elements
FirstOccurrences(s) ==
    LET first == {k \in 1..Len(s) : \A m \in 1..(k - 1) : s[m] # s[k]}
    IN  [n \in 1..Cardinality(first) |-> s[NthOf(first, n)]]

IsAddLibraryDecl(d) == d.kind = "add_library" /\ d.form = "args"

IsPropertiesDecl(d) ==
    d.kind = "set_target_properties" /\ d.form = "INTERFACE_LINK_LIBRARIES"

AddSubjects(text) == {text[k].name : k \in {m \in 1..Len(text) : IsAddLibraryDecl(text[m])}}

PropertiesSubjects(text) ==
    {text[k].name : k \in {m \in 1..Len(text) : IsPropertiesDecl(text[m])}}

\* the quoted string of the last properties declaration for X
LastPropertiesString(text, X) ==
    LET at == {k \in 1..Len(text) : IsPropertiesDecl(text[k]) /\ text[k].name = X}
    IN  text[CHOOSE k \in at : \A m \in at : m <= k].str

\* the tokens of a quoted string: its pieces between the semicolons
TokenSeq(s) ==
    LET semis == {p \in 1..Len(s) : s[p] = SEMI}
        from(n) == IF n = 1 THEN 1 ELSE NthOf(semis, n - 1) + 1
        to(n) == IF n = Cardinality(semis) + 1 THEN Len(s) ELSE NthOf(semis, n) - 1
    IN  [n \in 1..(Cardinality(semis) + 1) |-> SubSeq(s, from(n), to(n))]

\* the cc_library blocks of an output text
OpenLines(text) == {p \in 1..Len(text) : text[p] = LineOpen}

BlockCount(text) == Cardinality(OpenLines(text))

Block(text, n) ==
    SubSeq(text, NthOf(OpenLines(text), n),
           IF n < BlockCount(text) THEN NthOf(OpenLines(text), n + 1) - 1 ELSE Len(text))

BlockName(b) == b[2][2]

BlockNames(text) == [n \in 1..BlockCount(text) |-> BlockName(Block(text, n))]

HasAttribute(b, open) == open \in Range(b)

\* the lines between an attribute's opening line and its closing line
Entries(b, open) ==
    IF ~HasAttribute(b, open) THEN <<>>
    ELSE LET a == CHOOSE p \in 1..Len(b) : b[p] = open
             c == CHOOSE q \in (a + 1)..Len(b) :
                      b[q] = LineListClose
                      /\ \A m \in (a + 1)..(q - 1) : b[m] # LineListClose
         IN  SubSeq(b, a + 1, c - 1)

InSystemTable(t) == t \in DOMAIN system_library_map

InExternalTable(t) == t \notin DOMAIN system_library_map /\ t \in DOMAIN dep_map

InNoTable(t) == t \notin DOMAIN system_library_map /\ t \notin DOMAIN dep_map

\* extract_libraries has returned: libraries is the mapping of contents
Extracted == pc \in {"render_loop", "classify"}

\* cmake_parser is about to return: bzl_content holds every block
Rendered == pc = "render_loop" /\ i > Len(libraries)

ValueOf(d, key) == d[CHOOSE k \in 1..Len(d) : d[k][1] = key][2]

TimesKey(d, key) == Cardinality({k \in 1..Len(d) : d[k][1] = key})

(***************************************************************************)
(* C1.  Every identifier that is the subject of an add_library declaration *)
(* is a key of the mapping extract_libraries returns, exactly once, and    *)
(* its dependency list is empty when the text holds no                     *)
(* set_target_properties / INTERFACE_LINK_LIBRARIES declaration for it.    *)
(***************************************************************************)
C1_DeclaredLibrariesAreKeys ==
    Extracted =>
        \A X \in AddSubjects(contents) :
            /\ TimesKey(libraries, X) = 1
            /\ X \notin PropertiesSubjects(contents) => ValueOf(libraries, X) = <<>>

\* X is declared twice and has no properties, Y has properties
C1_Witness ==
    /\ Extracted
    /\ Cardinality({k \in 1..Len(contents) :
                        IsAddLibraryDecl(contents[k]) /\ contents[k].name = "X"}) = 2
    /\ "X" \notin PropertiesSubjects(contents)
    /\ "Y" \in PropertiesSubjects(contents)
    /\ TimesKey(libraries, "X") = 1
    /\ ValueOf(libraries, "X") = <<>>
    /\ ValueOf(libraries, "Y") # <<>>

(***************************************************************************)
(* C7, as claimed.  A properties declaration for an identifier that no     *)
(* add_library declaration names adds no key: the keys of the mapping are  *)
(* the add_library identifiers.                                            *)
(***************************************************************************)
C7_Original_UndeclaredDropped ==
    Extracted => Range(Keys(libraries)) = AddSubjects(contents)

(***************************************************************************)
(* C7, amended.  A properties declaration for an identifier that no        *)
(* add_library declaration names inserts that identifier as a new key,     *)
(* holding the list parsed from the declaration (never empty, a quoted     *)
(* string has at least one token): the keys of the mapping are the         *)
(* add_library identifiers together with the properties identifiers.       *)
(***************************************************************************)
C7_UndeclaredInserted ==
    Extracted =>
        /\ Range(Keys(libraries)) =
               AddSubjects(contents) \cup PropertiesSubjects(contents)
        /\ \A X \in PropertiesSubjects(contents) \ AddSubjects(contents) :
               /\ TimesKey(libraries, X) = 1
               /\ ValueOf(libraries, X) = ParseDeps(LastPropertiesString(contents, X))
               /\ ValueOf(libraries, X) # <<>>

\* Y has properties and no add_library, X is declared
C7_Witness ==
    /\ Extracted
    /\ AddSubjects(contents) = {"X"}
    /\ "Y" \in PropertiesSubjects(contents)
    /\ Keys(libraries) = <<"X", "Y">>
    /\ ValueOf(libraries, "Y") = <<<<"A">>>>

(***************************************************************************)
(* C9, as claimed.  When an add_library(X) declaration stands in the text  *)
(* after a properties declaration for X, the parsed properties entry is    *)
(* discarded and X ends with an empty dependency list.                     *)
(***************************************************************************)
C9_Original_LaterAddLibraryResets ==
    Extracted =>
        \A k, m \in 1..Len(contents) :
            (/\ k < m
             /\ IsPropertiesDecl(contents[k])
             /\ IsAddLibraryDecl(contents[m])
             /\ contents[m].name = contents[k].name)
            => ValueOf(libraries, contents[k].name) = <<>>

(***************************************************************************)
(* C9, amended.  Extraction does not depend on how the add_library and the *)
(* properties declarations of an identifier interleave: every add_library  *)
(* match is applied before any properties match, so an add_library(X),     *)
(* repeated or not, discards no properties entry, and an identifier with a *)
(* properties declaration anywhere in the text ends with the list of its   *)
(* last properties declaration.                                            *)
(***************************************************************************)
C9_PropertiesSurviveAddLibrary ==
    Extracted =>
        \A X \in PropertiesSubjects(contents) :
            /\ ValueOf(libraries, X) = ParseDeps(LastPropertiesString(contents, X))
            /\ ValueOf(libraries, X) # <<>>

\* properties for X, then add_library(X): X keeps its list
C9_Witness ==
    /\ Extracted
    /\ \E k, m \in 1..Len(contents) :
           /\ k < m
           /\ IsPropertiesDecl(contents[k]) /\ contents[k].name = "X"
           /\ contents[k].str = <<"A">>
           /\ IsAddLibraryDecl(contents[m]) /\ contents[m].name = "X"
    /\ LastPropertiesString(contents, "X") = <<"A">>
    /\ ValueOf(libraries, "X") = <<<<"A">>>>

(***************************************************************************)
(* C6.  The renderer emits one cc_library block per key of the mapping, in *)
(* the order in which the keys were first inserted (the add_library        *)
(* matches in text order, then the properties matches in text order); a    *)
(* key assigned again keeps its first place and gets no second block.      *)
(***************************************************************************)
C6_OneBlockPerKeyInInsertionOrder ==
    Rendered =>
        /\ BlockNames(bzl_content) = Keys(libraries)
        /\ NoRepeat(BlockNames(bzl_content))
        /\ BlockNames(bzl_content) =
               FirstOccurrences(
                   add_library_matches
                   \o [k \in 1..Len(set_target_properties_pattern_matches) |->
                           set_target_properties_pattern_matches[k][1]])

\* X, Y, then X again: the blocks are X, Y
C6_Witness ==
    /\ Rendered
    /\ Len(contents) = 3
    /\ IsAddLibraryDecl(contents[1]) /\ contents[1].name = "X"
    /\ IsAddLibraryDecl(contents[2]) /\ contents[2].name = "Y"
    /\ IsPropertiesDecl(contents[3]) /\ contents[3].name = "X"
    /\ BlockNames(bzl_content) = <<"X", "Y">>

(***************************************************************************)
(* C2, as claimed.  For a library with a properties declaration the stored *)
(* list holds no token twice, holds every distinct token of the            *)
(* semicolon-separated string, and keeps them in the order of their first  *)
(* occurrence in the string.                                               *)
(***************************************************************************)
C2_Original_EveryTokenKept ==
    Extracted =>
        \A X \in PropertiesSubjects(contents) :
            LET tokens == TokenSeq(LastPropertiesString(contents, X))
                deps == ValueOf(libraries, X)
            IN  /\ NoRepeat(deps)
                /\ Range(tokens) \subseteq Range(deps)
                /\ \A a, b \in 1..Len(deps) :
                       (a < b /\ deps[a] \in Range(tokens) /\ deps[b] \in Range(tokens))
                       => FirstIndex(tokens, deps[a]) < FirstIndex(tokens, deps[b])

(***************************************************************************)
(* C2, amended.  For a library with a properties declaration the stored    *)
(* list, taken from the last such declaration, holds no token twice, holds *)
(* exactly the tokens of the string as the LINK_ONLY rewriting leaves      *)
(* them, and keeps them in the order of their first occurrence.            *)
(***************************************************************************)
C2_RewrittenTokensOnceInOrder ==
    Extracted =>
        \A X \in PropertiesSubjects(contents) :
            LET raw == TokenSeq(LastPropertiesString(contents, X))
                tokens == [n \in 1..Len(raw) |-> LinkOnlySub(raw[n])]
                deps == ValueOf(libraries, X)
            IN  /\ NoRepeat(deps)
                /\ Range(deps) = Range(tokens)
                /\ \A a, b \in 1..Len(deps) :
                       a < b => FirstIndex(tokens, deps[a]) < FirstIndex(tokens, deps[b])

\* "A;B;A" is stored as A, B
C2_Witness ==
    /\ Extracted
    /\ "X" \in PropertiesSubjects(contents)
    /\ LastPropertiesString(contents, "X") = <<"A", SEMI, "B", SEMI, "A">>
    /\ ValueOf(libraries, "X") = <<<<"A">>, <<"B">>>>

(***************************************************************************)
(* C3, as claimed.  A token is rewritten if and only if it has the exact   *)
(* shape \$<LINK_ONLY:<inner>>, and then becomes <inner>; every other      *)
(* token is stored unchanged; duplicates are removed after the rewriting,  *)
(* each token staying where it first occurred.                             *)
(***************************************************************************)
HasLinkOnlyShape(t) == Len(t) >= 2 /\ t[1] = LINK_ONLY /\ t[Len(t)] = GT

RewriteExactShape(t) == IF HasLinkOnlyShape(t) THEN SubSeq(t, 2, Len(t) - 1) ELSE t

C3_OnlyExactShapeRewritten ==
    Extracted =>
        \A X \in PropertiesSubjects(contents) :
            LET raw == TokenSeq(LastPropertiesString(contents, X))
            IN  ValueOf(libraries, X) =
                    FirstOccurrences([n \in 1..Len(raw) |-> RewriteExactShape(raw[n])])

C5_AttributesOmittedWhenEmpty ==
    pc = "render_loop" =>
        \A n \in 1..BlockCount(bzl_content) :
            LET b == Block(bzl_content, n)
                deps == libraries[n][2]
            IN  /\ HasAttribute(b, LineDepsOpen)
                       <=> \E k \in 1..Len(deps) : ~InSystemTable(deps[k])
                /\ HasAttribute(b, LineLinkoptsOpen)
                       <=> \E k \in 1..Len(deps) : InSystemTable(deps[k])
                /\ (/\ BlockName(b) \in AddSubjects(contents)
                    /\ BlockName(b) \notin PropertiesSubjects(contents))
                   => b = <<LineOpen, LineName(BlockName(b)), LineSrcsOpen,
                            LineSrc(BlockName(b)), LineListClose, LineClose, LineBlank>>

\* X has no properties and neither attribute; Y has only a system
\* dependency, so linkopts and no deps
C5_Witness ==
    /\ Rendered
    /\ Keys(libraries) = <<"X", "Y">>
    /\ "X" \notin PropertiesSubjects(contents)
    /\ libraries[2][2] = <<<<"m">>>>
    /\ ~HasAttribute(Block(bzl_content, 1), LineDepsOpen)
    /\ ~HasAttribute(Block(bzl_content, 1), LineLinkoptsOpen)
    /\ ~HasAttribute(Block(bzl_content, 2), LineDepsOpen)
    /\ HasAttribute(Block(bzl_content, 2), LineLinkoptsOpen)

(***************************************************************************)
(* C10, as claimed.  No block lists an entry twice in its deps attribute   *)
(* or in its linkopts attribute.                                           *)
(***************************************************************************)
C10_NoEntryTwice ==
    pc = "render_loop" =>
        \A n \in 1..BlockCount(bzl_content) :
            /\ NoRepeat(Entries(Block(bzl_content, n), LineDepsOpen))
            /\ NoRepeat(Entries(Block(bzl_content, n), LineLinkoptsOpen))

(***************************************************************************)
(* C8.  The paths are processed one after the other in argument order.     *)
(* For each path the provenance comment, then the blocks of that file,     *)
(* then a blank line are written before the next path is opened; what is   *)
(* written for a path depends on the path and on the contents of its file  *)
(* alone.  When a path cannot be read the run stops there: no block is     *)
(* written for it or for any later path, and the output of every earlier   *)
(* path is complete.                                                       *)
(***************************************************************************)
SourceLines == {p \in 1..Len(stdout) : stdout[p] # <<>> /\ stdout[p][1] = "# Source: "}

\* the lines written after the n-th provenance comment and before the next
Segment(n) ==
    SubSeq(stdout, NthOf(SourceLines, n) + 1,
           IF n < Cardinality(SourceLines)
           THEN NthOf(SourceLines, n + 1) - 1 ELSE Len(stdout))

PathsBegun == IF pc \in {"main", "exit"} THEN fi - 1 ELSE fi

SubjectSeq(text) ==
    LET adds == SelectSeq(text, IsAddLibraryDecl)
        props == SelectSeq(text, IsPropertiesDecl)
    IN  [k \in 1..Len(adds) |-> adds[k].name] \o [k \in 1..Len(props) |-> props[k].name]

\* a text made of whole blocks
WholeBlocks(text) ==
    /\ text # <<>> => text[1] = LineOpen
    /\ \A n \in 1..BlockCount(text) :
           LET b == Block(text, n)
           IN  /\ Len(b) >= 7
               /\ b[Len(b) - 1] = LineClose
               /\ b[Len(b)] = LineBlank

C8_SequentialAndFailFast ==
    /\ Cardinality(SourceLines) = PathsBegun
    /\ stdout # <<>> => 1 \in SourceLines
    /\ \A n \in 1..PathsBegun :
           stdout[NthOf(SourceLines, n)] = <<"# Source: ", filenames[n]>>
    /\ \A n \in 1..(fi - 1) :
           LET seg == Segment(n)
               blocks == SubSeq(seg, 1, Len(seg) - 1)
           IN  /\ fs[filenames[n]].exists
               /\ seg # <<>>
               /\ seg[Len(seg)] = LineBlank
               /\ WholeBlocks(blocks)
               /\ BlockNames(blocks) = FirstOccurrences(SubjectSeq(fs[filenames[n]].text))
    /\ \A n, m \in 1..(fi - 1) :
           fs[filenames[n]] = fs[filenames[m]] => Segment(n) = Segment(m)
    /\ pc \notin {"main", "exit"} => Segment(fi) = <<>>
    /\ pc \notin {"main", "exit", "open", "error"} => fs[filenames[fi]].exists
    /\ pc = "error" => ~fs[filenames[fi]].exists /\ ~ENABLED Next

\* three paths, the second unreadable: the blocks of the first are out,
\* the third is never opened
C8_Witness ==
    /\ pc = "error"
    /\ Len(filenames) = 3
    /\ fi = 2
    /\ fs[filenames[3]].exists
    /\ BlockCount(Segment(1)) = 1
    /\ Cardinality(SourceLines) = 2

====
